---- MODULE Spec2Model ----
(***************************************************************************)
(* State-machine model of the root component of the react-app package     *)
(* (packages/react-app/src/App.jsx): wallet connection through web3Modal,  *)
(* the derived wallet address, the role fetch against the backend, flash   *)
(* messages, the mainnet provider fallback, the router switch, and the     *)
(* page reloads scheduled by logout and by the wallet events.              *)
(*                                                                         *)
(* One page load is the life of one App instance.  A reload throws the     *)
(* page's state away (component state, promises in flight, timers) and     *)
(* mounts a new App; only web3Modal's cached provider (local storage)     *)
(* survives it.                                                            *)
(***************************************************************************)
EXTENDS Integers, Sequences, FiniteSets, TLC

\* ------------------------------------------------------------------ bounds
\* web3Modal.connect() promises pending at a time
MaxConnects == 2
\* GET /user requests issued within one page load
MaxGets == 2
\* flash messages shown within one page load
MaxFlash == 3
\* segments of a URL path
MaxSegs == 3

\* --------------------------------------------------------------- constants
\* the value of a useState() never set
Undefined == [kind |-> "undefined"]
NoAddress == ""
None == "none"

\* const USER_ROLES
USER_ROLES ==
  [admin |-> "user_role.administrator",
   anonymous |-> "user_role.anonymous",
   registered |-> "user_role.registered"]

\* the wallets web3Modal.connect() can resolve with, and each signer's address
Wallets == {"injected", "walletconnect"}

AddressOf(w) == IF w = "injected" THEN "0xA" ELSE "0xB"

\* new Web3Provider(provider)
Web3Provider(provider) == [kind |-> "Web3Provider", provider |-> provider]

\* useUserProvider(injectedProvider): the provider the address is derived from
useUserProvider(ip) == ip

\* What axios.get(serverUrl + "/user") can come back with: a response whose
\* data.isAdmin is truthy, one whose data.isAdmin is falsy, a resolved
\* response without data (reading data.isAdmin throws), a rejected request.
Responses == {"isAdmin", "notAdmin", "noData", "rejected"}

\* texts passed to flashMessage.success / flashMessage.error
Messages == {"saved", "failed"}

FlashEntries == [status : {"success", "error"}, text : Messages]

\* ----------------------------------------------------------------- state
VARIABLES
  cachedProvider,    \* web3Modal.cachedProvider is set (local storage)
  scaffoldNetwork,   \* scaffoldEthProvider: "detecting", "detected" (_network set), "failed"
  mainnetProvider,   \* the mainnetProvider of the last render of App
  injectedProvider,  \* useState(): Undefined or a Web3Provider
  connecting,        \* web3Modal.connect() promises still pending
  lastConnect,       \* history: the wallet the last resolved connect of this page load returned
  lastSettled,       \* history: how the last settled connect of this page load ended
  addressCalls,      \* useUserAddress: wallets whose signer.getAddress() is pending
  address,           \* useUserAddress(userProvider)
  userRole,          \* useState(USER_ROLES.anonymous)
  inflight,          \* GET /user requests not yet settled: [n, address]
  getLog,            \* history: the address of every GET /user issued in this page load
  addressLog,        \* history: the successive values address has taken in this page load
  lastResponse,      \* history: what the most recently settled GET came back with
  roleForCurrent,    \* history: role classified by the latest settled GET for the current address
  logoutTimer,       \* a reload timer set by logoutOfWeb3Modal is pending
  eventTimer,        \* a reload timer set by a chainChanged / accountsChanged handler is pending
  eventSeen,         \* history: a wallet event was emitted in this page load
  eventCached,       \* history: a wallet event of this page load saw a cached provider
  flashMessages,     \* useState([])
  flashLog,          \* history: every flashMessage call of this page load, in order
  flashBatch,        \* history: how many calls the last batch of flashMessage calls held
  location,          \* the router's location: [segs], the segments of its pathname
  rendered           \* the leaf views the Switch renders for location

walletVars == <<injectedProvider, connecting, lastConnect, lastSettled, addressCalls, address>>
roleVars == <<userRole, inflight, getLog, addressLog, lastResponse, roleForCurrent>>
reloadVars == <<logoutTimer, eventTimer, eventSeen, eventCached>>
flashVars == <<flashMessages, flashLog, flashBatch>>
routeVars == <<location, rendered>>

vars == <<cachedProvider, scaffoldNetwork, mainnetProvider,
          walletVars, roleVars, reloadVars, flashVars, routeVars>>

\* ------------------------------------------------------- render and effects
\* const mainnetProvider = scaffoldEthProvider && scaffoldEthProvider._network
\*                           ? scaffoldEthProvider : mainnetInfura
MainnetProvider_noFallback(network) == "scaffoldEthProvider"

MainnetProvider(network) ==
  IF network = "detected" THEN "scaffoldEthProvider" ELSE "mainnetInfura"

\* useEffect(() => { if (address) fetchUserData() }, [address]): the effect
\* runs after a render whose address differs from the previous render's (and
\* after the first render), and then fetches only for a non-empty address.
FetchEffect_noDeps(depsChanged, cur) == cur # NoAddress

FetchEffect_noGuard(depsChanged, cur) == depsChanged

FetchEffectRuns(depsChanged, cur) == depsChanged /\ cur # NoAddress

\* fetchUserData: the role set once the GET has settled with resp
RoleAfterFetch_keepsOnFailure(resp, prev) ==
  CASE resp = "isAdmin" -> USER_ROLES.admin
    [] resp = "notAdmin" -> USER_ROLES.registered
    [] OTHER -> prev

RoleAfterFetch(resp, prev) ==
  CASE resp = "isAdmin" -> USER_ROLES.admin
    [] resp = "notAdmin" -> USER_ROLES.registered
    [] OTHER -> USER_ROLES.anonymous

\* the mount effect: if (web3Modal.cachedProvider) loadWeb3Modal()
MountEffectConnects(cached) == cached

\* the updater flashMessage.success / .error hands to setFlashMessages
FlashUpdater_stale(status, message, prevFlashMessages) ==
  Append(flashMessages, [status |-> status, text |-> message])

FlashUpdater(status, message, prevFlashMessages) ==
  Append(prevFlashMessages, [status |-> status, text |-> message])

\* React applies the queued updaters of one batch in call order, each to the
\* result of the one before.
RECURSIVE ApplyUpdaters(_, _)
ApplyUpdaters(prev, calls) ==
  IF calls = <<>> THEN prev
  ELSE ApplyUpdaters(FlashUpdater(Head(calls).status, Head(calls).text, prev),
                     Tail(calls))

\* A render of App with address cur, the requests base being in flight:
\* mainnetProvider is recomputed and the [address] effect is run.
Render(cur, base) ==
  /\ mainnetProvider' = MainnetProvider(scaffoldNetwork)
  /\ IF FetchEffectRuns(cur # address, cur)
       THEN /\ inflight' = base \cup {[n |-> Len(getLog) + 1, address |-> cur]}
            /\ getLog' = Append(getLog, cur)
       ELSE /\ inflight' = base
            /\ getLog' = getLog

\* ------------------------------------------------------------------ router
Segs == {"my-profile", "builders", "Builders", "challenge", "challenge-review", "0xA"}

Paths == [segs : UNION {[1..k -> Segs] : k \in 0..MaxSegs}]

RootPath == [segs |-> <<>>]

\* matchPath compares case-insensitively (sensitive: false)
Lower(seg) == IF seg = "Builders" THEN "builders" ELSE seg

IsParam(seg) == seg \in {":builderAddress", ":challengeId"}

\* the <Route> children of <Switch>, in declaration order
Routes ==
  << [path |-> <<>>, exact |-> TRUE, view |-> "HomeView"],
     [path |-> <<"my-profile">>, exact |-> TRUE, view |-> "BuilderHomeView"],
     [path |-> <<"builders">>, exact |-> TRUE, view |-> "BuilderListView"],
     [path |-> <<"builders", ":builderAddress">>, exact |-> FALSE, view |-> "BuilderProfileView"],
     [path |-> <<"challenge", ":challengeId">>, exact |-> FALSE, view |-> "ChallengeDetailView"],
     [path |-> <<"challenge-review">>, exact |-> TRUE, view |-> "ChallengeReviewView"] >>

\* matchPath(pathname, {path, exact}): the route's segments match the first
\* segments of the location, a parameter matching any one segment; an exact
\* route matches no longer path.
MatchPath_ignoresExact(route, loc) ==
  /\ Len(loc.segs) >= Len(route.path)
  /\ \A i \in 1..Len(route.path) :
       IsParam(route.path[i]) \/ Lower(loc.segs[i]) = Lower(route.path[i])

MatchPath(route, loc) ==
  /\ Len(loc.segs) >= Len(route.path)
  /\ \A i \in 1..Len(route.path) :
       IsParam(route.path[i]) \/ Lower(loc.segs[i]) = Lower(route.path[i])
  /\ route.exact => Len(loc.segs) = Len(route.path)

\* <Switch>: the first child whose route matches, and no other
RECURSIVE SwitchFrom(_, _)
SwitchFrom(i, loc) ==
  IF i > Len(Routes) THEN {}
  ELSE IF MatchPath(Routes[i], loc) THEN {Routes[i].view}
  ELSE SwitchFrom(i + 1, loc)

Switch(loc) == SwitchFrom(1, loc)

\* -------------------------------------------------------------------- mount
\* The state of a freshly mounted App.
Mounted ==
  /\ scaffoldNetwork = "detecting"
  /\ mainnetProvider = MainnetProvider("detecting")
  /\ injectedProvider = Undefined
  /\ connecting = IF MountEffectConnects(cachedProvider) THEN 1 ELSE 0
  /\ lastConnect = None
  /\ lastSettled = None
  /\ addressCalls = {}
  /\ address = NoAddress
  /\ userRole = USER_ROLES.anonymous
  /\ inflight = IF FetchEffectRuns(TRUE, NoAddress)
                  THEN {[n |-> 1, address |-> NoAddress]} ELSE {}
  /\ getLog = IF FetchEffectRuns(TRUE, NoAddress) THEN <<NoAddress>> ELSE <<>>
  /\ addressLog = <<>>
  /\ lastResponse = None
  /\ roleForCurrent = None
  /\ logoutTimer = FALSE
  /\ eventTimer = FALSE
  /\ eventSeen = FALSE
  /\ eventCached = FALSE
  /\ flashMessages = <<>>
  /\ flashLog = <<>>
  /\ flashBatch = 0

\* The page is opened at the root path.
Init ==
  /\ cachedProvider \in BOOLEAN
  /\ Mounted
  /\ location = RootPath
  /\ rendered = Switch(RootPath)

\* window.location.reload(): the page's state is dropped and App mounts anew
Reload ==
  /\ scaffoldNetwork' = "detecting"
  /\ mainnetProvider' = MainnetProvider("detecting")
  /\ injectedProvider' = Undefined
  /\ connecting' = IF MountEffectConnects(cachedProvider) THEN 1 ELSE 0
  /\ lastConnect' = None
  /\ lastSettled' = None
  /\ addressCalls' = {}
  /\ address' = NoAddress
  /\ userRole' = USER_ROLES.anonymous
  /\ inflight' = IF FetchEffectRuns(TRUE, NoAddress)
                   THEN {[n |-> 1, address |-> NoAddress]} ELSE {}
  /\ getLog' = IF FetchEffectRuns(TRUE, NoAddress) THEN <<NoAddress>> ELSE <<>>
  /\ addressLog' = <<>>
  /\ lastResponse' = None
  /\ roleForCurrent' = None
  /\ logoutTimer' = FALSE
  /\ eventTimer' = FALSE
  /\ eventSeen' = FALSE
  /\ eventCached' = FALSE
  /\ flashMessages' = <<>>
  /\ flashLog' = <<>>
  /\ flashBatch' = 0
  /\ UNCHANGED <<cachedProvider, routeVars>>

\* ------------------------------------------------------------ wallet connect
\* loadWeb3Modal called from the Header: web3Modal.connect() is now pending
LoadWeb3Modal ==
  /\ connecting < MaxConnects
  /\ connecting' = connecting + 1
  /\ UNCHANGED <<cachedProvider, scaffoldNetwork, mainnetProvider,
                 injectedProvider, lastConnect, lastSettled, addressCalls, address,
                 roleVars, reloadVars, flashVars, routeVars>>

\* web3Modal.connect() resolves with wallet w: web3Modal caches the choice
\* (cacheProvider: true), loadWeb3Modal stores a new Web3Provider, App renders
\* again and useUserAddress asks the new provider's signer for its address.
ConnectResolved(w) ==
  /\ connecting > 0
  /\ connecting' = connecting - 1
  /\ lastConnect' = w
  /\ lastSettled' = "resolved"
  /\ cachedProvider' = TRUE
  /\ injectedProvider' = Web3Provider(w)
  /\ addressCalls' = addressCalls \cup {useUserProvider(Web3Provider(w)).provider}
  /\ Render(address, inflight)
  /\ UNCHANGED <<scaffoldNetwork, address, userRole, addressLog,
                 lastResponse, roleForCurrent,
                 reloadVars, flashVars, routeVars>>

\* web3Modal.connect() rejects (modal closed, wallet refused): the await in
\* loadWeb3Modal throws and setInjectedProvider is not reached.
ConnectRejected_clears ==
  /\ connecting > 0
  /\ connecting' = connecting - 1
  /\ lastSettled' = "rejected"
  /\ injectedProvider' = Undefined
  /\ UNCHANGED <<cachedProvider, scaffoldNetwork, mainnetProvider,
                 lastConnect, addressCalls, address,
                 roleVars, reloadVars, flashVars, routeVars>>

ConnectRejected ==
  /\ connecting > 0
  /\ connecting' = connecting - 1
  /\ lastSettled' = "rejected"
  /\ UNCHANGED <<cachedProvider, scaffoldNetwork, mainnetProvider,
                 injectedProvider, lastConnect, addressCalls, address,
                 roleVars, reloadVars, flashVars, routeVars>>

\* useUserAddress: signer.getAddress() of wallet w resolves and the hook sets
\* its state; App renders again when the value differs.
AddressResolved(w) ==
  /\ w \in addressCalls
  /\ AddressOf(w) # address => Len(getLog) < MaxGets
  /\ addressCalls' = addressCalls \ {w}
  /\ address' = AddressOf(w)
  /\ IF AddressOf(w) # address
       THEN /\ addressLog' = Append(addressLog, AddressOf(w))
            /\ roleForCurrent' = None
            /\ Render(AddressOf(w), inflight)
       ELSE UNCHANGED <<addressLog, roleForCurrent, mainnetProvider, inflight, getLog>>
  /\ UNCHANGED <<cachedProvider, scaffoldNetwork, injectedProvider,
                 connecting, lastConnect, lastSettled, userRole, lastResponse,
                 reloadVars, flashVars, routeVars>>

\* ---------------------------------------------------------------- role fetch
\* The GET /user of request r settles with resp; fetchUserData sets the role.
FetchSettled(r, resp) ==
  /\ r \in inflight
  /\ userRole' = RoleAfterFetch(resp, userRole)
  /\ lastResponse' = resp
  /\ roleForCurrent' = IF r.address = address
                         THEN RoleAfterFetch(resp, userRole) ELSE roleForCurrent
  /\ IF RoleAfterFetch(resp, userRole) # userRole
       THEN Render(address, inflight \ {r})
       ELSE /\ inflight' = inflight \ {r}
            /\ UNCHANGED <<mainnetProvider, getLog>>
  /\ UNCHANGED <<cachedProvider, scaffoldNetwork, walletVars,
                 addressLog, reloadVars, flashVars, routeVars>>

\* ------------------------------------------------------------------- logout
\* logoutOfWeb3Modal: the cached provider is cleared, then the reload timer is
\* set.  web3Modal.clearCachedProvider() returns synchronously, so what follows
\* the await runs as a microtask of the same task: no timer, wallet response
\* or user event is handled in between.
LogoutOfWeb3Modal ==
  /\ cachedProvider' = FALSE
  /\ logoutTimer' = TRUE
  /\ UNCHANGED <<scaffoldNetwork, mainnetProvider, walletVars, roleVars,
                 eventTimer, eventSeen, eventCached, flashVars, routeVars>>

LogoutTimerFires ==
  /\ logoutTimer
  /\ Reload

\* ------------------------------------------------------------ wallet events
\* the handler registered for chainChanged and for accountsChanged
OnWalletEvent_noTimer ==
  /\ eventSeen' = TRUE
  /\ eventCached' = (eventCached \/ cachedProvider)
  /\ UNCHANGED <<cachedProvider, scaffoldNetwork, mainnetProvider,
                 walletVars, roleVars, logoutTimer, eventTimer,
                 flashVars, routeVars>>

OnWalletEvent ==
  /\ eventSeen' = TRUE
  /\ IF cachedProvider
       THEN /\ eventTimer' = TRUE
            /\ eventCached' = TRUE
       ELSE UNCHANGED <<eventTimer, eventCached>>
  /\ UNCHANGED <<cachedProvider, scaffoldNetwork, mainnetProvider,
                 walletVars, roleVars, logoutTimer,
                 flashVars, routeVars>>

ChainChanged == OnWalletEvent

AccountsChanged == OnWalletEvent

EventTimerFires ==
  /\ eventTimer
  /\ Reload

\* --------------------------------------------------------- mainnet provider
\* scaffoldEthProvider detects its network: _network is set from now on
NetworkDetected ==
  /\ scaffoldNetwork = "detecting"
  /\ scaffoldNetwork' = "detected"
  /\ UNCHANGED <<cachedProvider, mainnetProvider, walletVars,
                 roleVars, reloadVars, flashVars, routeVars>>

\* connecting to the scaffold-eth RPC fails: _network is never set
NetworkFailed ==
  /\ scaffoldNetwork = "detecting"
  /\ scaffoldNetwork' = "failed"
  /\ UNCHANGED <<cachedProvider, mainnetProvider, walletVars,
                 roleVars, reloadVars, flashVars, routeVars>>

\* ----------------------------------------------------------- flash messages
\* A view calls flashMessage.success / .error once or several times back to
\* back; React then renders App with the queued updaters applied.
FlashMessageCalls(calls) ==
  /\ calls # <<>>
  /\ Len(flashLog) + Len(calls) <= MaxFlash
  /\ flashMessages' = ApplyUpdaters(flashMessages, calls)
  /\ flashLog' = flashLog \o calls
  /\ flashBatch' = Len(calls)
  /\ Render(address, inflight)
  /\ UNCHANGED <<cachedProvider, scaffoldNetwork, walletVars,
                 userRole, addressLog, lastResponse, roleForCurrent,
                 reloadVars, routeVars>>

\* ---------------------------------------------------------------- navigation
\* the router's location changes and the Switch renders again
Navigate(loc) ==
  /\ loc # location
  /\ location' = loc
  /\ rendered' = Switch(loc)
  /\ UNCHANGED <<cachedProvider, scaffoldNetwork, mainnetProvider,
                 walletVars, roleVars, reloadVars, flashVars>>

\* ------------------------------------------------------------ specifications
\* The wallet session of App: connection, address, role fetch, mainnet
\* provider, logout, wallet events and the reloads they schedule.  These
\* operations neither read nor write flashMessages or the location, whose
\* operations are taken under FlashSpec and RouteSpec below.
Next ==
  \/ LoadWeb3Modal
  \/ \E w \in Wallets : ConnectResolved(w)
  \/ ConnectRejected
  \/ \E w \in Wallets : AddressResolved(w)
  \/ \E r \in inflight, resp \in Responses : FetchSettled(r, resp)
  \/ LogoutOfWeb3Modal
  \/ LogoutTimerFires
  \/ ChainChanged
  \/ AccountsChanged
  \/ EventTimerFires
  \/ NetworkDetected
  \/ NetworkFailed

Spec == Init /\ [][Next]_vars

\* A timer set by setTimeout fires unless the page is unloaded first.
FairSpec ==
  /\ Init
  /\ [][Next]_vars
  /\ WF_vars(LogoutTimerFires)
  /\ WF_vars(EventTimerFires)

\* The flash messages of App, which no other operation of App reads or
\* writes, together with the one way App itself ends a page load.
FlashNext ==
  \/ \E calls \in UNION {[1..k -> FlashEntries] : k \in 1..MaxFlash} :
       FlashMessageCalls(calls)
  \/ LogoutOfWeb3Modal
  \/ LogoutTimerFires

FlashSpec == Init /\ [][FlashNext]_vars

\* The router switch as a function of the location: every path, then every
\* navigation.
RouteInit ==
  /\ cachedProvider = FALSE
  /\ Mounted
  /\ location \in Paths
  /\ rendered = Switch(location)

RouteNext == \E loc \in Paths : Navigate(loc)

RouteSpec == RouteInit /\ [][RouteNext]_vars

\* ==================================================================== claims

\* C1 (as stated): every chainChanged and accountsChanged event is followed by
\* a page reload scheduled by a timer, whatever the state of the cached
\* provider: once an event has been emitted, a reload timer is pending until
\* the page reloads.
C1_EveryEventReloads == eventSeen => (eventTimer \/ logoutTimer)

\* C1 (amended): a wallet event schedules a reload timer exactly when
\* web3Modal.cachedProvider is set as its handler runs, and every event
\* handled with a cached provider is eventually followed by a page reload.
C1_CachedEventReloads ==
  /\ [](eventTimer <=> eventCached)
  /\ eventCached ~> ~eventCached

C1_Witness == eventSeen /\ eventCached /\ eventTimer

\* C2: once no GET /user is in flight, userRole is the role classified by the
\* response for the current address; a late response for an earlier address
\* does not overwrite it.
C2_RoleOfCurrentAddress ==
  (inflight = {} /\ roleForCurrent # None) => userRole = roleForCurrent

\* C3 (as stated): at most one GET /user is issued within one page load.
C3_AtMostOneGet == Len(getLog) <= 1

\* C3 (amended): within one page load the GETs to /user are, in order, for
\* exactly the successive values address has taken: one GET each time address
\* changes to a new non-empty value, and none otherwise.
C3_OneGetPerAddressValue == getLog = addressLog

C3_Witness == Len(addressLog) = 2 /\ Len(getLog) = 2 /\ Cardinality(inflight) = 2

\* C4: after a GET /user has settled, userRole is admin if the response's
\* isAdmin was truthy, registered if it was not, and anonymous if the request
\* failed (rejected, or no data to read), whatever the role was before.
C4_RoleClassification ==
  lastResponse # None =>
    userRole = CASE lastResponse = "isAdmin" -> "user_role.administrator"
                 [] lastResponse = "notAdmin" -> "user_role.registered"
                 [] OTHER -> "user_role.anonymous"

\* a failed GET has set anonymous over the admin role the last response for
\* the current address had classified
C4_Witness ==
  /\ lastResponse \in {"rejected", "noData"}
  /\ roleForCurrent = "user_role.administrator"
  /\ userRole = "user_role.anonymous"

\* C5: injectedProvider is undefined until a connect of this page load
\* resolves, and from then on is the Web3Provider wrapping what the last
\* resolved connect returned; a rejected connect leaves it as it was.
C5_InjectedProvider ==
  injectedProvider =
    IF lastConnect = None THEN [kind |-> "undefined"]
    ELSE [kind |-> "Web3Provider", provider |-> lastConnect]

C5_Witness == lastSettled = "rejected" /\ injectedProvider # Undefined

\* C6: every render of App computes mainnetProvider as scaffoldEthProvider
\* exactly when that provider has a detected network, and the views are given
\* mainnetInfura as long as no network is detected, so whenever connecting to
\* the scaffold-eth RPC has failed.
C6_MainnetFallback ==
  /\ [][(\/ injectedProvider' # injectedProvider
         \/ address' # address
         \/ userRole' # userRole
         \/ (connecting' < connecting /\ lastSettled' = "resolved"))
        => (mainnetProvider' = "scaffoldEthProvider"
              <=> scaffoldNetwork' = "detected")]_vars
  /\ [](scaffoldNetwork # "detected" => mainnetProvider = "mainnetInfura")

C6_Witness ==
  /\ mainnetProvider = "scaffoldEthProvider"
  /\ injectedProvider # Undefined

\* C7: the switch renders at most one leaf view, the one of the first
\* matching route: "/" HomeView, "/my-profile" BuilderHomeView, "/builders"
\* BuilderListView, a path under "/builders/<builderAddress>"
\* BuilderProfileView, a path under "/challenge/<challengeId>"
\* ChallengeDetailView, "/challenge-review" ChallengeReviewView, and no view
\* for any other path.
C7_SwitchRendersFirstMatch ==
  LET s == [i \in 1..Len(location.segs) |->
              IF location.segs[i] = "Builders" THEN "builders" ELSE location.segs[i]]
      expected ==
        CASE s = <<>> -> {"HomeView"}
          [] s = <<"my-profile">> -> {"BuilderHomeView"}
          [] s = <<"builders">> -> {"BuilderListView"}
          [] Len(s) >= 2 /\ s[1] = "builders" -> {"BuilderProfileView"}
          [] Len(s) >= 2 /\ s[1] = "challenge" -> {"ChallengeDetailView"}
          [] s = <<"challenge-review">> -> {"ChallengeReviewView"}
          [] OTHER -> {}
  IN /\ rendered = expected
     /\ Cardinality(rendered) <= 1

C7_Witness ==
  /\ location.segs = <<"builders", "0xA", "challenge">>
  /\ rendered = {"BuilderProfileView"}

\* C8: when the reload scheduled by logoutOfWeb3Modal happens the cached
\* provider is empty, so the App it mounts does not call loadWeb3Modal and
\* starts with injectedProvider undefined.
C8_LogoutReloadFindsNoCache ==
  [][(logoutTimer /\ ~logoutTimer')
       => (~cachedProvider /\ connecting' = 0 /\ injectedProvider' = Undefined)]_vars

\* C9: userRole is always one of the three USER_ROLES; while address is empty
\* it is anonymous and no GET /user has been issued; it is admin or registered
\* only after a GET /user that succeeded.
C9_UserRoleInvariant ==
  /\ userRole \in {"user_role.administrator", "user_role.anonymous", "user_role.registered"}
  /\ address = NoAddress =>
       (userRole = "user_role.anonymous" /\ getLog = <<>> /\ inflight = {})
  /\ userRole \in {"user_role.administrator", "user_role.registered"} =>
       lastResponse \in {"isAdmin", "notAdmin"}

C9_Witness ==
  /\ address = NoAddress
  /\ injectedProvider # Undefined
  /\ addressCalls # {}

\* C10: flashMessages holds exactly the entries of the flashMessage calls made
\* since mount, in call order: empty at mount, one entry appended per call,
\* none removed, reordered or lost, also for calls made back to back.
C10_FlashAppendOnly == flashMessages = flashLog

C10_Witness ==
  /\ flashBatch = 2
  /\ Len(flashMessages) = 2
  /\ flashMessages[1].status = "success"
  /\ flashMessages[2].status = "error"

====
